---- MODULE Spec2Model ----
(***************************************************************************)
(* Room registry and message router of the two-player relay server         *)
(* (src/server.js).  Node runs every event handler to completion, so each  *)
(* handler ('connection', 'message', 'close') is one atomic action.        *)
(***************************************************************************)
EXTENDS Integers, Sequences, FiniteSets, TLC

\* ---------------------------------------------------------------- bounds
MaxClients == 3      \* connections accepted during a run
NumCodes   == 2      \* distinct values Math.random() is sampled at
MaxState   == 0      \* playerUpdate payloads are 0..MaxState (or absent)

\* ------------------------------------------------------------- constants
Null == "null"       \* JS null / undefined

Digit(d) ==
  CASE d = 0 -> "0" [] d = 1 -> "1" [] d = 2 -> "2" [] d = 3 -> "3"
    [] d = 4 -> "4" [] d = 5 -> "5" [] d = 6 -> "6" [] d = 7 -> "7"
    [] d = 8 -> "8" [] d = 9 -> "9"

\* Number.prototype.toString() of a non-negative integer
RECURSIVE toString(_)
toString(n) == IF n < 10 THEN Digit(n) ELSE toString(n \div 10) \o Digit(n % 10)

\* ws.id of the n-th connection
Clients == {toString(n) : n \in 1..MaxClients}

\* values of Math.floor(Math.random()*9000): 0 and 8999 are always sampled
RandomDraws == {(i * 8999) \div (NumCodes - 1) : i \in 0..(NumCodes - 1)}

\* const code = Math.floor(1000 + Math.random()*9000).toString()
CodeOf(d) == toString(1000 + d)

Codes == {CodeOf(d) : d \in RandomDraws}

\* data.code of an inbound message: a generated code, or absent
InputCodes == Codes \cup {Null}

\* data.state of an inbound playerUpdate: a JSON number, or absent
States == {toString(n) : n \in 0..MaxState} \cup {Null}

\* WebSocket.readyState; "NONE" = no connection object yet
OPEN    == "OPEN"
CLOSING == "CLOSING"
CLOSED  == "CLOSED"
NONE    == "NONE"

VARIABLES
  rooms,            \* Map code -> (ordered Map id -> ws), as code -> Seq(id)
  roomCode,         \* ws.roomCode of every connection
  readyState,       \* ws.readyState of every connection
  clientIdCounter,  \* next id to assign
  sendThrows,       \* does ws.send() on a non-open socket throw (ws < 7) or drop (ws >= 7)
  crashed,          \* an exception escaped a handler: the process is gone
  last,             \* the handler that has just run and what it did; op "idle" between handlers
  prev              \* the previous event, if it was a joinRoom that found a room of one member

vars == <<rooms, roomCode, readyState, clientIdCounter, sendThrows, crashed, last, prev>>

\* ------------------------------------------------------------ Map helpers
Range(s) == {s[i] : i \in 1..Len(s)}

\* Map.prototype.set(id, ws): an existing key keeps its position
MapSet(members, c) == IF c \in Range(members) THEN members ELSE Append(members, c)

\* Map.prototype.delete(id)
MapDelete(members, c) == SelectSeq(members, LAMBDA m : m # c)

\* rooms.set(code, members)
RoomsSet(R, k, members) == [x \in (DOMAIN R) \cup {k} |-> IF x = k THEN members ELSE R[x]]

\* rooms.delete(code)
RoomsDelete(R, k) == [x \in (DOMAIN R) \ {k} |-> R[x]]

\* roomClients.size of rooms.get(code), 0 when rooms.get gives undefined
SizeOf(R, k) == IF k \in DOMAIN R THEN Len(R[k]) ELSE 0

\* ------------------------------------------------------- handler context
\* The state a handler works on, with what it has sent and closed so far.
World(R, RC, rs) ==
  [rooms |-> R, roomCode |-> RC, readyState |-> rs, sent |-> <<>>,
   close |-> 0, fault |-> FALSE, stale |-> Null]

\* ws.send(JSON.stringify({type, ...})): recorded with whether the socket was open
send(W, to, type, arg) ==
  [W EXCEPT !.sent = Append(@, [to |-> to, type |-> type, arg |-> arg,
                                 ok |-> W.readyState[to] = OPEN])]

\* does ws.send() on this socket raise?
Throws(W, to) == sendThrows /\ W.readyState[to] # OPEN

\* ws.close(status): an open socket starts closing, 'close' is emitted later
closeWs(W, c, status) ==
  [W EXCEPT !.readyState[c] = IF @ = OPEN THEN CLOSING ELSE @, !.close = status]

\* catch (e) { ... } of the processing try block, data being an object
CatchBlock(W, c) ==
  LET W1 == send([W EXCEPT !.fault = TRUE], c, "error", "internal")
  IN IF W1.readyState[c] = OPEN THEN closeWs(W1, c, 1011) ELSE W1

\* the opponentLeft notifications of removeClientFromRoom, in Map order
RECURSIVE NotifyLeft(_, _, _, _)
NotifyLeft(W, members, c, i) ==
  IF i > Len(members) THEN W
  ELSE LET m == members[i]
       IN IF m # c /\ W.readyState[m] = OPEN
          THEN NotifyLeft(send(W, m, "opponentLeft", Null), members, c, i + 1)
          ELSE NotifyLeft(W, members, c, i + 1)

\* mutation: the emptied room is not deleted
removeClientFromRoom_KeepsEmpty(W, c) ==
  LET code == W.roomCode[c]
  IN IF code # Null /\ code \in DOMAIN W.rooms
     THEN LET W1 == NotifyLeft(W, W.rooms[code], c, 1)
              left == MapDelete(W1.rooms[code], c)
          IN [W1 EXCEPT !.roomCode[c] = Null, !.rooms = RoomsSet(@, code, left)]
     ELSE W

\* mutation: the leaver's room code is not cleared
removeClientFromRoom_KeepsCode(W, c) ==
  LET code == W.roomCode[c]
  IN IF code # Null /\ code \in DOMAIN W.rooms
     THEN LET W1 == NotifyLeft(W, W.rooms[code], c, 1)
              left == MapDelete(W1.rooms[code], c)
          IN [W1 EXCEPT !.rooms = IF Len(left) = 0 THEN RoomsDelete(@, code)
                                  ELSE RoomsSet(@, code, left)]
     ELSE W

removeClientFromRoom(W, c) ==
  LET code == W.roomCode[c]
  IN IF code # Null /\ code \in DOMAIN W.rooms
     THEN LET W1 == NotifyLeft(W, W.rooms[code], c, 1)
              left == MapDelete(W1.rooms[code], c)
          IN [W1 EXCEPT !.roomCode[c] = Null,
                        !.rooms = IF Len(left) = 0 THEN RoomsDelete(@, code)
                                  ELSE RoomsSet(@, code, left)]
     ELSE W

\* mutation: createRoom forgets the back-reference on the socket
createRoom_NoBackRef(W, c, d) ==
  LET code == CodeOf(d)
      W1 == [W EXCEPT !.rooms = RoomsSet(@, code, <<c>>)]
      W2 == send(W1, c, "roomCreated", code)
  IN IF Throws(W1, c) THEN CatchBlock(W2, c) ELSE W2

\* if (data.type === 'createRoom') { ... }
createRoom(W, c, d) ==
  LET code == CodeOf(d)
      W1 == [W EXCEPT !.rooms = RoomsSet(@, code, <<c>>), !.roomCode[c] = code]
      W2 == send(W1, c, "roomCreated", code)
  IN IF Throws(W1, c) THEN CatchBlock(W2, c) ELSE W2

\* mutation: the capacity test dropped from the join condition
CanJoin_AnySize(W, k) == k \in DOMAIN W.rooms

\* if (roomClients && roomClients.size === 1)
CanJoin(W, k) == k \in DOMAIN W.rooms /\ Len(W.rooms[k]) = 1

\* mutation: a rejected joiner is also closed
joinRejected_Closes(W, c) ==
  LET W1 == send(W, c, "error", "notFoundOrFull")
  IN closeWs(W1, c, 1008)

\* else { ws.send(error 'Room not found or full') }
joinRejected(W, c) ==
  LET W1 == send(W, c, "error", "notFoundOrFull")
  IN IF Throws(W, c) THEN CatchBlock(W1, c) ELSE W1

\* if (data.type === 'joinRoom') { ... }
joinRoom(W, c, k) ==
  IF CanJoin(W, k)
  THEN LET W1 == [W EXCEPT !.rooms = RoomsSet(@, k, MapSet(W.rooms[k], c)),
                           !.roomCode[c] = k]
           W2 == send(W1, c, "roomJoined", k)
           p1 == W1.rooms[k][1]
       IN IF Throws(W1, c) THEN CatchBlock(W2, c)
          ELSE IF W2.readyState[p1] = OPEN
          THEN send(W2, p1, "playerJoined", k)
          ELSE LET W3 == send(W2, c, "error", "ownerDisconnected")
               IN IF Throws(W2, c) THEN CatchBlock(W3, c)
                  ELSE removeClientFromRoom(
                         [closeWs(W3, c, 1008) EXCEPT !.stale = p1], p1)
  ELSE joinRejected(W, c)

\* mutation: the relay loop without the sender test
RECURSIVE Relay_Echo(_, _, _, _, _)
Relay_Echo(W, members, c, s, i) ==
  IF i > Len(members) THEN W
  ELSE LET m == members[i]
       IN IF W.readyState[m] = OPEN
          THEN Relay_Echo(send(W, m, "opponentUpdate", s), members, c, s, i + 1)
          ELSE Relay_Echo(W, members, c, s, i + 1)

\* the relay loop of playerUpdate, in Map order
RECURSIVE Relay(_, _, _, _, _)
Relay(W, members, c, s, i) ==
  IF i > Len(members) THEN W
  ELSE LET m == members[i]
       IN IF m # c /\ W.readyState[m] = OPEN
          THEN Relay(send(W, m, "opponentUpdate", s), members, c, s, i + 1)
          ELSE Relay(W, members, c, s, i + 1)

\* if (data.type === 'playerUpdate') { ... }
playerUpdate(W, c, k, s) ==
  IF k \in DOMAIN W.rooms /\ Len(W.rooms[k]) = 2
  THEN Relay(W, W.rooms[k], c, s, 1)
  ELSE W

\* mutation: the broadcast leaves the sender out
RECURSIVE Broadcast_SkipSender(_, _, _, _)
Broadcast_SkipSender(W, members, c, i) ==
  IF i > Len(members) THEN W
  ELSE LET m == members[i]
           W1 == IF m # c THEN send(W, m, "startGame", Null) ELSE W
       IN IF m # c /\ Throws(W, m) THEN CatchBlock(W1, c)
          ELSE Broadcast_SkipSender(W1, members, c, i + 1)

\* roomClients.forEach(client_ws => client_ws.send(...)): no readyState test
RECURSIVE Broadcast(_, _, _, _)
Broadcast(W, members, c, i) ==
  IF i > Len(members) THEN W
  ELSE LET m == members[i]
           W1 == send(W, m, "startGame", Null)
       IN IF Throws(W, m) THEN CatchBlock(W1, c)
          ELSE Broadcast(W1, members, c, i + 1)

\* if (data.type === 'startGame') { ... }
startGame(W, c, k) ==
  IF k \in DOMAIN W.rooms /\ Len(W.rooms[k]) = 2
  THEN Broadcast(W, W.rooms[k], c, 1)
  ELSE W

\* ----------------------------------------------------------------- state
Idle ==
  [op |-> "idle", c |-> Null, code |-> Null, state |-> Null, size |-> 0,
   sent |-> <<>>, close |-> 0, fault |-> FALSE, stale |-> Null]

NoJoin == [c |-> Null, code |-> Null, joined |-> FALSE, stale |-> Null]

Init ==
  /\ rooms = [k \in {} |-> << >>]
  /\ roomCode = [c \in Clients |-> Null]
  /\ readyState = [c \in Clients |-> NONE]
  /\ clientIdCounter = 1
  /\ sendThrows \in BOOLEAN
  /\ crashed = FALSE
  /\ last = Idle
  /\ prev = NoJoin

\* did the handler send this client an event of this type on an open socket?
Received(sent, c, type) == \E i \in 1..Len(sent) : sent[i].to = c /\ sent[i].type = type /\ sent[i].ok

\* a handler ran to its end: install its world and record the event
Commit(W, op, c, k, s) ==
  /\ rooms' = W.rooms
  /\ roomCode' = W.roomCode
  /\ readyState' = W.readyState
  /\ last' = [op |-> op, c |-> c, code |-> k, state |-> s, size |-> SizeOf(rooms, k),
              sent |-> W.sent, close |-> W.close, fault |-> W.fault, stale |-> W.stale]
  /\ prev' = IF op = "joinRoom" /\ SizeOf(rooms, k) = 1
             THEN [c |-> c, code |-> k, joined |-> Received(W.sent, c, "roomJoined"),
                   stale |-> W.stale]
             ELSE NoJoin

Here == World(rooms, roomCode, readyState)

\* the event loop is free to run a handler
Ready == ~crashed /\ last.op = "idle"

\* 'message' is emitted for a socket until its 'close': also while it is closing
Receiving(c) == Ready /\ readyState[c] \in {OPEN, CLOSING}

\* wss.on('connection', ws => { ... })
Connection ==
  /\ Ready
  /\ clientIdCounter <= MaxClients
  /\ LET id == toString(clientIdCounter)
         W  == send([Here EXCEPT !.readyState[id] = OPEN], id, "assignId", id)
     IN Commit(W, "connection", id, Null, Null)
  /\ clientIdCounter' = clientIdCounter + 1
  /\ UNCHANGED <<sendThrows, crashed>>

\* JSON.parse(message) throws: logged, dropped
Malformed(c) ==
  /\ Receiving(c)
  /\ Commit(Here, "malformed", c, Null, Null)
  /\ UNCHANGED <<clientIdCounter, sendThrows, crashed>>

\* the message parses to null: data.type throws in the try block, and again in
\* the console.error of the catch block, which nothing catches
NullMessage(c) ==
  /\ Receiving(c)
  /\ crashed' = TRUE
  /\ last' = [Idle EXCEPT !.op = "nullMessage", !.c = c, !.fault = TRUE]
  /\ prev' = NoJoin
  /\ UNCHANGED <<rooms, roomCode, readyState, clientIdCounter, sendThrows>>

\* the message parses to a value whose .type is none of the five known ones
OtherMessage(c) ==
  /\ Receiving(c)
  /\ Commit(Here, "other", c, Null, Null)
  /\ UNCHANGED <<clientIdCounter, sendThrows, crashed>>

CreateRoom(c) ==
  /\ Receiving(c)
  /\ \E d \in RandomDraws : Commit(createRoom(Here, c, d), "createRoom", c, CodeOf(d), Null)
  /\ UNCHANGED <<clientIdCounter, sendThrows, crashed>>

JoinRoom(c) ==
  /\ Receiving(c)
  /\ \E k \in InputCodes : Commit(joinRoom(Here, c, k), "joinRoom", c, k, Null)
  /\ UNCHANGED <<clientIdCounter, sendThrows, crashed>>

PlayerUpdate(c) ==
  /\ Receiving(c)
  /\ \E k \in InputCodes, s \in States :
       Commit(playerUpdate(Here, c, k, s), "playerUpdate", c, k, s)
  /\ UNCHANGED <<clientIdCounter, sendThrows, crashed>>

StartGame(c) ==
  /\ Receiving(c)
  /\ \E k \in InputCodes : Commit(startGame(Here, c, k), "startGame", c, k, Null)
  /\ UNCHANGED <<clientIdCounter, sendThrows, crashed>>

LeaveRoom(c) ==
  /\ Receiving(c)
  /\ Commit(removeClientFromRoom(Here, c), "leaveRoom", c, roomCode[c], Null)
  /\ UNCHANGED <<clientIdCounter, sendThrows, crashed>>

\* the peer closes (close frame or socket end): the socket is closing until
\* the library emits 'close'
PeerClose(c) ==
  /\ Ready
  /\ readyState[c] = OPEN
  /\ Commit([Here EXCEPT !.readyState[c] = CLOSING], "peerClose", c, Null, Null)
  /\ UNCHANGED <<clientIdCounter, sendThrows, crashed>>

\* ws.on('close', () => { removeClientFromRoom(ws); }): readyState is CLOSED by now
Close(c) ==
  /\ Ready
  /\ readyState[c] = CLOSING
  /\ Commit(removeClientFromRoom([Here EXCEPT !.readyState[c] = CLOSED], c),
            "close", c, roomCode[c], Null)
  /\ UNCHANGED <<clientIdCounter, sendThrows, crashed>>

\* the handler returns: the event loop waits for the next event
Return ==
  /\ ~crashed
  /\ last.op # "idle"
  /\ last' = Idle
  /\ UNCHANGED <<rooms, roomCode, readyState, clientIdCounter, sendThrows, crashed, prev>>

Next ==
  \/ Connection
  \/ \E c \in Clients : Malformed(c)
  \/ \E c \in Clients : NullMessage(c)
  \/ \E c \in Clients : OtherMessage(c)
  \/ \E c \in Clients : CreateRoom(c)
  \/ \E c \in Clients : JoinRoom(c)
  \/ \E c \in Clients : PlayerUpdate(c)
  \/ \E c \in Clients : StartGame(c)
  \/ \E c \in Clients : LeaveRoom(c)
  \/ \E c \in Clients : PeerClose(c)
  \/ \E c \in Clients : Close(c)
  \/ Return

Spec == Init /\ [][Next]_vars

\* ---------------------------------------------------------------- claims
Members(R, k) == IF k \in DOMAIN R THEN Range(R[k]) ELSE {}

\* events of this type the handler delivered to client c
Got(sent, c, type) ==
  Cardinality({i \in 1..Len(sent) : sent[i].to = c /\ sent[i].type = type /\ sent[i].ok})

\* events of this type the handler sent or tried to send, to anyone
Sent(sent, type) == {i \in 1..Len(sent) : sent[i].type = type}

\* C1: every room in the registry has exactly 1 or exactly 2 (distinct)
\* members, in every state between two handlers.
C1_RoomSize ==
  \A k \in DOMAIN rooms :
    /\ Len(rooms[k]) \in {1, 2}
    /\ Cardinality(Range(rooms[k])) = Len(rooms[k])

\* a third client has just asked to join a room of two and the room still has two
C1_Witness ==
  /\ last.op = "joinRoom" /\ last.size = 2
  /\ last.code \in DOMAIN rooms
  /\ Len(rooms[last.code]) = 2
  /\ last.c \notin Range(rooms[last.code])

\* C2 (as claimed): of two joinRoom handlers run back to back by different
\* clients for the same code, the first of which found the room with one
\* member, exactly one is answered roomJoined; the other is answered an error
\* and is not added.
C2_Claim ==
  [][(/\ prev.c # Null
      /\ last'.op = "joinRoom"
      /\ last'.code = prev.code
      /\ last'.c # prev.c)
     => LET second == Got(last'.sent, last'.c, "roomJoined") > 0
        IN /\ prev.joined # second
           /\ prev.joined => /\ Got(last'.sent, last'.c, "error") = 1
                             /\ last'.c \notin Members(rooms', prev.code)]_vars

\* C3: a playerUpdate from a member of a room of two makes exactly one
\* opponentUpdate, with the same state, to the other member if that one is
\* open and none otherwise; no handler ever sends an opponentUpdate to its
\* sender or outside the room named.
C3_Relay ==
  [][/\ (/\ last'.op = "playerUpdate"
         /\ SizeOf(rooms, last'.code) = 2
         /\ last'.c \in Members(rooms, last'.code))
        => LET other == CHOOSE m \in Members(rooms, last'.code) : m # last'.c
           IN last'.sent = IF readyState[other] = OPEN
                           THEN <<[to |-> other, type |-> "opponentUpdate",
                                   arg |-> last'.state, ok |-> TRUE]>>
                           ELSE <<>>
     /\ \A i \in Sent(last'.sent, "opponentUpdate") :
          /\ last'.op = "playerUpdate"
          /\ last'.sent[i].to # last'.c
          /\ last'.sent[i].to \in Members(rooms, last'.code)
          /\ last'.sent[i].arg = last'.state]_vars

\* a member's update with a payload has just been relayed to the other member
C3_Witness ==
  /\ last.op = "playerUpdate" /\ last.state # Null
  /\ last.c \in Members(rooms, last.code)
  /\ Len(last.sent) = 1
  /\ last.sent[1].type = "opponentUpdate" /\ last.sent[1].arg = last.state

C5_Claim ==
  [][/\ last'.op \in {"leaveRoom", "close"}
        => \A k \in DOMAIN rooms :
             (Len(rooms[k]) = 2 /\ last'.c \in Range(rooms[k]))
             => LET other == CHOOSE m \in Range(rooms[k]) : m # last'.c
                IN /\ k \in DOMAIN rooms'
                   /\ rooms'[k] = <<other>>
                   /\ readyState'[other] = OPEN
                        => Got(last'.sent, other, "opponentLeft") = 1
     /\ (last'.op = "joinRoom" /\ last'.code \notin DOMAIN rooms)
        => /\ Sent(last'.sent, "error") # {}
           /\ rooms' = rooms]_vars

\* C6: a joinRoom for a code with no room, or with a room of two, changes no
\* room, no room code and no connection state, closes nobody, sends nothing
\* but error events to the sender, and exactly one that arrives when the sender is open.
C6_JoinRejected ==
  [][(last'.op = "joinRoom" /\ SizeOf(rooms, last'.code) # 1)
     => /\ rooms' = rooms
        /\ roomCode' = roomCode
        /\ readyState' = readyState
        /\ last'.close = 0
        /\ \A i \in 1..Len(last'.sent) :
             last'.sent[i].to = last'.c /\ last'.sent[i].type = "error"
        /\ readyState[last'.c] = OPEN
             => last'.sent = <<[to |-> last'.c, type |-> "error",
                                arg |-> "notFoundOrFull", ok |-> TRUE]>>]_vars

\* an open client has just been refused a room of two
C6_Witness ==
  /\ last.op = "joinRoom" /\ last.size = 2
  /\ readyState[last.c] = OPEN
  /\ Got(last.sent, last.c, "error") = 1

\* inbound messages that parsed as JSON
ParsedOps == {"nullMessage", "other", "createRoom", "joinRoom", "playerUpdate",
              "startGame", "leaveRoom"}

\* C7 (as claimed): whatever a message parses to, no exception escapes its
\* handler; when processing raised a fault the sender is sent an error, an
\* open sender is closed with 1011, no other connection changes state and no
\* room the sender was not in changes.
C7_Claim ==
  [][last'.op \in ParsedOps
     => /\ ~crashed'
        /\ last'.fault
             => /\ Sent(last'.sent, "error") # {}
                /\ readyState[last'.c] = OPEN
                     => last'.close = 1011 /\ readyState'[last'.c] = CLOSING
                /\ \A d \in Clients \ {last'.c} : readyState'[d] = readyState[d]
                /\ \A k \in DOMAIN rooms :
                     last'.c \notin Range(rooms[k])
                     => k \in DOMAIN rooms' /\ rooms'[k] = rooms[k]]_vars

\* C8 (as claimed): a joinRoom that finds the owner not open sends the joiner
\* an error and closes it with 1008; and once the joiner's close handler has
\* run, no room under that code holds the stale owner.
C8_Claim ==
  [][/\ (last'.op = "joinRoom" /\ last'.stale # Null)
        => /\ Sent(last'.sent, "error") # {}
           /\ last'.close = 1008
           /\ readyState'[last'.c] # OPEN
     /\ (last'.op = "close" /\ prev.stale # Null /\ prev.c = last'.c)
        => prev.stale \notin Members(rooms', prev.code)]_vars

\* C9 (as claimed): a client whose close handler has run is a member of no room.
C9_Claim ==
  \A c \in Clients :
    readyState[c] = CLOSED => \A k \in DOMAIN rooms : c \notin Range(rooms[k])

\* C10 (as claimed): a client's room code is k exactly when the registry has
\* a room under k that contains the client.
C10_Claim ==
  \A c \in Clients : \A k \in Codes :
    roomCode[c] = k <=> c \in Members(rooms, k)

\* the strings of the integers 1000..9999
FourDigitCodes == {toString(n) : n \in 1000..9999}

\* C11 (as claimed): after every createRoom the registry holds, under the
\* generated code, a room whose only member is the requester, the requester's
\* room code is that code, the requester has received exactly one roomCreated
\* carrying it, and the code is the string of an integer in 1000..9999.
C11_Claim ==
  [][last'.op = "createRoom"
     => /\ last'.code \in FourDigitCodes
        /\ last'.code \in DOMAIN rooms'
        /\ rooms'[last'.code] = <<last'.c>>
        /\ roomCode'[last'.c] = last'.code
        /\ Got(last'.sent, last'.c, "roomCreated") = 1
        /\ \A i \in Sent(last'.sent, "roomCreated") :
             last'.sent[i].to = last'.c /\ last'.sent[i].arg = last'.code]_vars

\* C11 (amended): as claimed for the registry, the room code and the code's
\* form; a requester whose socket is open is sent exactly the one roomCreated
\* with that code, and no roomCreated goes to anyone else or with another code.
C11_CreateRoom ==
  [][last'.op = "createRoom"
     => /\ last'.code \in FourDigitCodes
        /\ last'.code \in DOMAIN rooms'
        /\ rooms'[last'.code] = <<last'.c>>
        /\ roomCode'[last'.c] = last'.code
        /\ readyState[last'.c] = OPEN
             => last'.sent = <<[to |-> last'.c, type |-> "roomCreated",
                                arg |-> last'.code, ok |-> TRUE]>>
        /\ \A i \in Sent(last'.sent, "roomCreated") :
             last'.sent[i].to = last'.c /\ last'.sent[i].arg = last'.code]_vars

\* an open client has just created the room with the largest code
C11_Witness ==
  /\ last.op = "createRoom" /\ last.code = "9999"
  /\ rooms[last.code] = <<last.c>>
  /\ Got(last.sent, last.c, "roomCreated") = 1

\* C12 (as claimed): createRoom never yields the code of a room that exists;
\* every room present before is present after under the same code with the
\* same members, and no other client that was in the room its code names is
\* left with a code whose room it is not in.
C12_Claim ==
  [][last'.op = "createRoom"
     => /\ last'.code \notin DOMAIN rooms
        /\ \A k \in DOMAIN rooms : k \in DOMAIN rooms' /\ rooms'[k] = rooms[k]
        /\ \A c \in Clients \ {last'.c} :
             (roomCode[c] # Null /\ c \in Members(rooms, roomCode[c]))
             => c \in Members(rooms', roomCode'[c])]_vars

\* an outbound event that arrived
Event(to, type, arg) == [to |-> to, type |-> type, arg |-> arg, ok |-> TRUE]

\* an open client with no room code that is in no room
Fresh(c) ==
  /\ readyState[c] = OPEN
  /\ roomCode[c] = Null
  /\ \A k \in DOMAIN rooms : c \notin Range(rooms[k])

\* C13: the end-to-end run of two fresh clients A and B, step by step; each
\* step's outcome gives the next step's starting point.  A connection sends
\* only assignId; A's createRoom sends roomCreated{code} to A only; B's
\* joinRoom{code} sends roomJoined{code} to B and playerJoined{code} to A;
\* A's playerUpdate sends opponentUpdate{state} to B only; B's disconnect
\* sends opponentLeft to A and leaves the room with A; A's disconnect sends
\* nothing and removes the room.
C13_Scenario ==
  [][LET A == last'.c
         k == last'.code
     IN /\ last'.op = "connection"
             => /\ last'.sent = <<Event(A, "assignId", A)>>
                /\ readyState'[A] = OPEN /\ roomCode'[A] = Null
                /\ \A r \in DOMAIN rooms' : A \notin Range(rooms'[r])
        /\ (last'.op = "createRoom" /\ Fresh(A))
             => /\ last'.sent = <<Event(A, "roomCreated", k)>>
                /\ rooms'[k] = <<A>> /\ roomCode'[A] = k /\ readyState'[A] = OPEN
        /\ \A B \in Clients \ {A} :
             /\ (/\ last'.op = "joinRoom" /\ last'.c = A /\ Fresh(A)
                 /\ k \in DOMAIN rooms /\ rooms[k] = <<B>>
                 /\ roomCode[B] = k /\ readyState[B] = OPEN)
                  => /\ last'.sent = <<Event(A, "roomJoined", k), Event(B, "playerJoined", k)>>
                     /\ rooms'[k] = <<B, A>>
                     /\ roomCode'[A] = k /\ roomCode'[B] = k
                     /\ readyState'[A] = OPEN /\ readyState'[B] = OPEN
             /\ (/\ last'.op = "playerUpdate"
                 /\ k \in DOMAIN rooms /\ rooms[k] = <<A, B>>
                 /\ readyState[B] = OPEN)
                  => /\ last'.sent = <<Event(B, "opponentUpdate", last'.state)>>
                     /\ rooms' = rooms /\ roomCode' = roomCode /\ readyState' = readyState
             /\ (/\ last'.op = "close"
                 /\ k \in DOMAIN rooms /\ rooms[k] = <<B, A>>
                 /\ roomCode[A] = k /\ roomCode[B] = k /\ readyState[B] = OPEN)
                  => /\ last'.sent = <<Event(B, "opponentLeft", Null)>>
                     /\ rooms'[k] = <<B>>
                     /\ roomCode'[B] = k /\ readyState'[B] = OPEN
        /\ last'.op = "peerClose"
             => /\ last'.sent = <<>>
                /\ rooms' = rooms /\ roomCode' = roomCode
                /\ \A c \in Clients \ {A} : readyState'[c] = readyState[c]
        /\ (/\ last'.op = "close"
            /\ k \in DOMAIN rooms /\ rooms[k] = <<A>> /\ roomCode[A] = k)
             => last'.sent = <<>> /\ k \notin DOMAIN rooms']_vars

\* the run has ended: the second of two clients has just disconnected as the
\* last member of its room, nothing was sent and the registry is empty
C13_Witness ==
  /\ last.op = "close" /\ last.size = 1 /\ last.sent = <<>>
  /\ DOMAIN rooms = {}
  /\ Cardinality({c \in Clients : readyState[c] = CLOSED}) = 2
  /\ \A c \in Clients : readyState[c] \in {CLOSED, NONE} /\ roomCode[c] = Null

\* C14 (as claimed): whenever a joinRoom is answered roomJoined, the room then
\* has exactly two members, the one that was there first and the joiner
\* second, and exactly one playerJoined is sent, to that first member, who is
\* not the joiner.
C14_Claim ==
  [][(last'.op = "joinRoom" /\ Got(last'.sent, last'.c, "roomJoined") > 0)
     => LET k == last'.code
            first == rooms[k][1]
        IN /\ first # last'.c
           /\ k \in DOMAIN rooms'
           /\ rooms'[k] = <<first, last'.c>>
           /\ Got(last'.sent, first, "playerJoined") = 1
           /\ \A i \in Sent(last'.sent, "playerJoined") : last'.sent[i].to = first]_vars

\* C15 (as claimed): every joinRoom from an open sender sends that sender
\* exactly one event that is a roomJoined or an error.
C15_Claim ==
  [][(last'.op = "joinRoom" /\ readyState[last'.c] = OPEN)
     => Cardinality({i \in 1..Len(last'.sent) :
                       /\ last'.sent[i].to = last'.c
                       /\ last'.sent[i].type \in {"roomJoined", "error"}}) = 1]_vars

\* C16 (as claimed): every client is a member of at most one room.
C16_Claim ==
  \A c \in Clients : Cardinality({k \in DOMAIN rooms : c \in Range(rooms[k])}) <= 1

\* C17: a leaveRoom or a close of a client whose room code is null sends
\* nothing and changes no room and no room code; and a leaveRoom that
\* notified somebody leaves the leaver's room code null, so that its
\* disconnect notifies nobody again.
C17_NoOp ==
  [][/\ (last'.op \in {"leaveRoom", "close"} /\ roomCode[last'.c] = Null)
        => /\ last'.sent = <<>>
           /\ rooms' = rooms
           /\ roomCode' = roomCode
     /\ (last'.op \in {"leaveRoom", "close"} /\ last'.sent # <<>>)
        => roomCode'[last'.c] = Null]_vars

\* a client without a room code has just disconnected while an open client
\* sits in a room: nobody was notified
C17_Witness ==
  /\ last.op = "close" /\ last.code = Null /\ last.sent = <<>>
  /\ \E k \in DOMAIN rooms : \E m \in Range(rooms[k]) : readyState[m] = OPEN

\* the client a handler removes: the stale owner on the owner-not-open branch
\* of joinRoom, the sender otherwise
Removed(e) == IF e.op = "joinRoom" THEN e.stale ELSE e.c

\* C18 (as claimed): opponentLeft is sent to X only while removing a client Y
\* that was in the same room's member mapping as X; and a leaveRoom or close
\* of a client changes no room it was not in.
C18_Claim ==
  [][/\ \A i \in Sent(last'.sent, "opponentLeft") :
          /\ last'.op \in {"leaveRoom", "close", "joinRoom"}
          /\ \E k \in DOMAIN rooms :
               {last'.sent[i].to, Removed(last')} \subseteq Range(rooms[k])
     /\ last'.op \in {"leaveRoom", "close"}
          => \A k \in DOMAIN rooms :
               last'.c \notin Range(rooms[k])
               => k \in DOMAIN rooms' /\ rooms'[k] = rooms[k]]_vars

\* C19 (as claimed): opponentUpdate and startGame are only sent by the
\* playerUpdate or startGame of a member of the recipient's room; sent by a
\* client that is not in the room under the code, they send its members nothing.
C19_Claim ==
  [][/\ \A i \in Sent(last'.sent, "opponentUpdate") \cup Sent(last'.sent, "startGame") :
          /\ last'.op \in {"playerUpdate", "startGame"}
          /\ {last'.sent[i].to, last'.c} \subseteq Members(rooms, last'.code)
     /\ (/\ last'.op \in {"playerUpdate", "startGame"}
         /\ last'.c \notin Members(rooms, last'.code))
          => \A i \in 1..Len(last'.sent) :
               last'.sent[i].to \notin Members(rooms, last'.code)]_vars

\* C20 (as claimed): send is only ever invoked on an open connection.
C20_Claim == \A i \in 1..Len(last.sent) : last.sent[i].ok

====
